---- MODULE Spec2Model ----
(***************************************************************************)
(* A model of rowan2: the arena-backed syntax tree, its TreeBuilder        *)
(* (src/src/builder.rs), the navigation, traversal and mutation           *)
(* operations of Node (src/src/node.rs) and the guard of a mutable root    *)
(* (src/src/lock.rs).                                                      *)
(*                                                                         *)
(* NodeId(n) is the natural number n; Option<NodeId>::None is None.        *)
(* The arena is a function over 0 .. len-1 whose values are NodeRepr       *)
(* records or Tombstone (Option<NodeRepr>::None).  A panic (a failed       *)
(* unwrap, assert or expect) ends the run: the operation's result carries  *)
(* ok = FALSE together with the data as the unwinding leaves it.           *)
(***************************************************************************)
EXTENDS Integers, Sequences, FiniteSets, TLC

VARIABLES builder, saved, hist, phase, root, data, last, ref, refOut, stage,
          lock, threads

vars == <<builder, saved, hist, phase, root, data, last, ref, refOut, stage,
          lock, threads>>

(***************************************************************************)
(* Bounds of the model.                                                    *)
(***************************************************************************)
MaxNodes == 4
MaxExtraClose == 1
MaxInit == 4
MaxMut == 2
MaxCpNodes == 5
MaxLockInit == 2
MaxLockOps == 2

\* The caller's syntax kinds (examples/checkpoint.rs:5-10) and leaf texts.
BranchKinds == {"Group"}
LeafKinds == {"Number"}
WrapKinds == {"Group", "Paren"}
InsertKinds == {"Operation"}
Texts == {<<"1">>, <<"+", "2">>}
\* Option<SmolStr> arguments of the inserts (examples/mutate.rs:43).
InsertContents == {<<>>, <<<<"/">>>>}

(***************************************************************************)
(* Data model (builder.rs:4-36, node.rs:18-21).                            *)
(***************************************************************************)
None == -1

Tombstone == [tomb |-> TRUE]

Branch(child) == [tag |-> "Branch", child |-> child, text |-> <<>>]

Leaf(text) == [tag |-> "Leaf", child |-> None, text |-> text]

NodeRepr(kind, parent, prev, next, content) ==
    [kind |-> kind, parent |-> parent, prev_sibling |-> prev,
     next_sibling |-> next, content |-> content]

Checkpoint(cursor, child) == [cursor |-> cursor, child |-> child]

NoCheckpoint == [cursor |-> None, child |-> None]

RootData(arena, ranges) == [arena |-> arena, ranges |-> ranges]

NoData == RootData(<<>>, <<>>)

VecLen(v) == Cardinality(DOMAIN v)

VecPush(v, x) == [i \in 0 .. VecLen(v) |-> IF i < VecLen(v) THEN v[i] ELSE x]

\* Content::expect_branch panics on a leaf.
expect_branch_ok(content) == content.tag = "Branch"

(***************************************************************************)
(* TreeBuilder (builder.rs:40-217).  A builder is the record of its five   *)
(* fields; every method is an operator from builder to builder.            *)
(***************************************************************************)
Default == [arena |-> <<>>, parent |-> None, child |-> None,
            ranges |-> <<>>, cursor |-> 0]

insert(b, node) == [b EXCEPT !.arena = VecPush(b.arena, node)]

\* insert_and_update that records no prev_sibling in the new node.
insert_and_update_noprev(b, kind, content) ==
    LET id == VecLen(b.arena)
        b1 == insert(b, NodeRepr(kind, b.parent, None, None, content))
        a2 == IF b.parent # None
              THEN [b1.arena EXCEPT ![b.parent].content.child =
                        IF @ # None THEN @ ELSE id]
              ELSE b1.arena
        a3 == IF b.child # None
              THEN [a2 EXCEPT ![b.child].next_sibling = id]
              ELSE a2
    IN  [b1 EXCEPT !.arena = a3]

\* insert_and_update without the link from the previous sibling.
insert_and_update_nolink(b, kind, content) ==
    LET id == VecLen(b.arena)
        b1 == insert(b, NodeRepr(kind, b.parent, b.child, None, content))
        a2 == IF b.parent # None
              THEN [b1.arena EXCEPT ![b.parent].content.child =
                        IF @ # None THEN @ ELSE id]
              ELSE b1.arena
    IN  [b1 EXCEPT !.arena = a2]

insert_and_update(b, kind, content) ==
    LET id == VecLen(b.arena)
        b1 == insert(b, NodeRepr(kind, b.parent, b.child, None, content))
        a2 == IF b.parent # None
              THEN [b1.arena EXCEPT ![b.parent].content.child =
                        IF @ # None THEN @ ELSE id]
              ELSE b1.arena
        a3 == IF b.child # None
              THEN [a2 EXCEPT ![b.child].next_sibling = id]
              ELSE a2
    IN  [b1 EXCEPT !.arena = a3]

start_internal(b, kind) ==
    LET id == VecLen(b.arena)
        b1 == [b EXCEPT !.ranges = VecPush(b.ranges, <<b.cursor, None>>)]
        b2 == insert_and_update(b1, kind, Branch(None))
    IN  [b2 EXCEPT !.parent = id, !.child = None]

\* finish_internal unwraps the range end of the current child (line 111).
finish_internal_ok(b) ==
    (b.parent # None /\ b.child # None) => b.ranges[b.child][2] # None

finish_internal(b) ==
    LET r1 == IF b.parent # None
              THEN [b.ranges EXCEPT ![b.parent][2] =
                        IF b.child # None THEN b.ranges[b.child][2]
                        ELSE b.ranges[b.parent][1]]
              ELSE b.ranges
    IN  [b EXCEPT !.ranges = r1,
                  !.child = b.parent,
                  !.parent = IF b.parent # None
                             THEN b.arena[b.parent].parent ELSE None]

leaf(b, kind, text) ==
    LET id == VecLen(b.arena)
        b1 == [b EXCEPT !.ranges = VecPush(b.ranges,
                                     <<b.cursor, b.cursor + Len(text)>>),
                        !.cursor = b.cursor + Len(text)]
        b2 == insert_and_update(b1, kind, Leaf(text))
    IN  [b2 EXCEPT !.child = id]

checkpoint(b) == Checkpoint(b.cursor, b.child)

\* The loops of start_internal_at (lines 157-160 and 181-184): every node
\* of the sibling chain starting at old_id gets the new branch as parent.
\* The loop stopped after its first iteration.
Reparent_first(arena, old_id, id) ==
    IF old_id = None THEN arena
    ELSE [arena EXCEPT ![old_id].parent = id]

RECURSIVE Reparent(_, _, _)
Reparent(arena, old_id, id) ==
    IF old_id = None THEN arena
    ELSE Reparent([arena EXCEPT ![old_id].parent = id],
                  arena[old_id].next_sibling, id)

start_internal_at(b, cp, kind) ==
    LET id == VecLen(b.arena)
        r1 == VecPush(b.ranges, <<cp.cursor, None>>)
        previous == cp.child
    IN  IF previous = None
        THEN LET old_id == IF b.parent # None
                           THEN b.arena[b.parent].content.child ELSE None
                 a1 == VecPush(b.arena,
                         NodeRepr(kind, b.parent, None, None, Branch(old_id)))
                 a2 == Reparent(a1, old_id, id)
                 a3 == IF b.parent # None
                       THEN [a2 EXCEPT ![b.parent].content = Branch(id)]
                       ELSE a2
             IN  [b EXCEPT !.ranges = r1, !.arena = a3, !.parent = id]
        ELSE LET old_id == b.arena[previous].next_sibling
                 a1 == VecPush(b.arena,
                         NodeRepr(kind, b.arena[previous].parent, previous,
                                  None, Branch(old_id)))
                 a2 == IF old_id # None
                       THEN [a1 EXCEPT ![old_id].prev_sibling = None]
                       ELSE a1
                 a3 == Reparent(a2, old_id, id)
                 a4 == [a3 EXCEPT ![previous].next_sibling = id]
             IN  [b EXCEPT !.ranges = r1, !.arena = a4, !.parent = id]

\* The two asserts of finish and finish_mut (lines 192-193, 206-207).
finish_ok(b) == b.child # None /\ b.arena[b.child].prev_sibling = None

finish(b) == [data |-> RootData(b.arena, b.ranges), node |-> b.child]

\* finish_mut that returns the first node built as the root.
finish_mut_first(b) == [data |-> RootData(b.arena, <<>>), node |-> 0]

finish_mut(b) == [data |-> RootData(b.arena, <<>>), node |-> b.child]

(***************************************************************************)
(* Node handle and navigation (node.rs:237-329).  A handle is a NodeId     *)
(* over an arena; repr (lines 247-253) unwraps the slot and panics on a    *)
(* tombstone.                                                              *)
(***************************************************************************)
repr_ok(arena, node) == arena[node] # Tombstone

parent(arena, node) == arena[node].parent

next_sibling(arena, node) == arena[node].next_sibling

prev_sibling(arena, node) == arena[node].prev_sibling

first_child(arena, node) ==
    IF arena[node].content.tag = "Branch" THEN arena[node].content.child
    ELSE None

kind(arena, node) == arena[node].kind

\* leaf_text_cow: the text of a leaf, absent (<<>> here, with has = FALSE)
\* for a branch.
leaf_text_cow(arena, node) ==
    IF arena[node].content.tag = "Leaf"
    THEN [has |-> TRUE, text |-> arena[node].content.text]
    ELSE [has |-> FALSE, text |-> <<>>]

\* try_range (lines 303-311): absent when the range table is empty, a
\* panic when the end of the node's range is unresolved.
try_range_present(d) == VecLen(d.ranges) # 0

try_range_ok(d, node) == try_range_present(d) => d.ranges[node][2] # None

\* range (lines 316-318): try_range().expect(..) returns only when
\* try_range returns a range.
range_ok(d, node) == try_range_present(d) /\ try_range_ok(d, node)

(***************************************************************************)
(* NodeIter (node.rs:363-375): children(n), as the list of yielded ids.    *)
(* ok = FALSE when next_sibling is called on a tombstone.                  *)
(***************************************************************************)
RECURSIVE NodeIter(_, _, _)
NodeIter(arena, next, fuel) ==
    IF next = None THEN [items |-> <<>>, ok |-> TRUE]
    ELSE IF ~repr_ok(arena, next) \/ fuel = 0
         THEN [items |-> <<next>>, ok |-> FALSE]
         ELSE LET rest == NodeIter(arena, next_sibling(arena, next), fuel - 1)
              IN  [items |-> <<next>> \o rest.items, ok |-> rest.ok]

children(arena, node) ==
    IF ~repr_ok(arena, node) THEN [items |-> <<>>, ok |-> FALSE]
    ELSE NodeIter(arena, first_child(arena, node), VecLen(arena))

(***************************************************************************)
(* NodeWalker (node.rs:377-426).                                           *)
(***************************************************************************)
Enter(node) == [tag |-> "Enter", node |-> node]

Leave(node) == [tag |-> "Leave", node |-> node]

NoEvent == [tag |-> "None", node |-> None]

walk(node) == [next |-> Enter(node), nested |-> 0]

\* NodeWalker::next that, on a Leave, never stops at nested == 0.
NodeWalkerNext_nostop(arena, w) ==
    LET next == w.next IN
    IF next.tag = "None"
    THEN [w |-> [w EXCEPT !.next = NoEvent], nested |-> 0, event |-> NoEvent,
          ok |-> TRUE]
    ELSE IF next.tag = "Enter"
    THEN IF ~repr_ok(arena, next.node)
         THEN [w |-> [next |-> NoEvent, nested |-> w.nested + 1],
               nested |-> w.nested, event |-> next, ok |-> FALSE]
         ELSE [w |-> [next |-> IF first_child(arena, next.node) # None
                               THEN Enter(first_child(arena, next.node))
                               ELSE Leave(next.node),
                      nested |-> w.nested + 1],
               nested |-> w.nested, event |-> next, ok |-> TRUE]
    ELSE IF ~repr_ok(arena, next.node)
         THEN [w |-> [next |-> NoEvent, nested |-> w.nested - 1],
               nested |-> w.nested - 1, event |-> next, ok |-> FALSE]
         ELSE [w |-> [next |->
                        IF next_sibling(arena, next.node) # None
                        THEN Enter(next_sibling(arena, next.node))
                        ELSE IF parent(arena, next.node) # None
                             THEN Leave(parent(arena, next.node))
                             ELSE NoEvent,
                      nested |-> w.nested - 1],
               nested |-> w.nested - 1, event |-> next, ok |-> TRUE]

\* One call of NodeWalker::next: the walker afterwards, the yielded
\* (nested, event) pair (event NoEvent when the iterator is exhausted) and
\* ok = FALSE when a navigation call inside it panics.
NodeWalkerNext(arena, w) ==
    LET next == w.next IN
    IF next.tag = "None"
    THEN [w |-> [w EXCEPT !.next = NoEvent], nested |-> 0, event |-> NoEvent,
          ok |-> TRUE]
    ELSE IF next.tag = "Enter"
    THEN IF ~repr_ok(arena, next.node)
         THEN [w |-> [next |-> NoEvent, nested |-> w.nested + 1],
               nested |-> w.nested, event |-> next, ok |-> FALSE]
         ELSE [w |-> [next |-> IF first_child(arena, next.node) # None
                               THEN Enter(first_child(arena, next.node))
                               ELSE Leave(next.node),
                      nested |-> w.nested + 1],
               nested |-> w.nested, event |-> next, ok |-> TRUE]
    ELSE IF w.nested - 1 = 0
         THEN [w |-> [next |-> NoEvent, nested |-> 0],
               nested |-> 0, event |-> next, ok |-> TRUE]
         ELSE IF ~repr_ok(arena, next.node)
         THEN [w |-> [next |-> NoEvent, nested |-> w.nested - 1],
               nested |-> w.nested - 1, event |-> next, ok |-> FALSE]
         ELSE [w |-> [next |->
                        IF next_sibling(arena, next.node) # None
                        THEN Enter(next_sibling(arena, next.node))
                        ELSE IF parent(arena, next.node) # None
                             THEN Leave(parent(arena, next.node))
                             ELSE NoEvent,
                      nested |-> w.nested - 1],
               nested |-> w.nested - 1, event |-> next, ok |-> TRUE]

\* The whole iteration `for (nested, event) in node.walk()`: the sequence
\* of yielded pairs.  fuel bounds the number of calls; a run that outlives
\* it is reported with ok = FALSE.
RECURSIVE WalkRun(_, _, _)
WalkRun(arena, w, fuel) ==
    LET r == NodeWalkerNext(arena, w) IN
    IF r.event.tag = "None" THEN [events |-> <<>>, ok |-> TRUE]
    ELSE IF ~r.ok \/ fuel = 0 THEN [events |-> <<>>, ok |-> FALSE]
    ELSE LET rest == WalkRun(arena, r.w, fuel - 1)
         IN  [events |-> <<[nested |-> r.nested, tag |-> r.event.tag,
                            node |-> r.event.node]>> \o rest.events,
              ok |-> rest.ok]

WalkEvents(arena, node) == WalkRun(arena, walk(node), 2 * VecLen(arena) + 2)

\* Display for Node (node.rs:340-351): the text of every entered leaf.
RECURSIVE DisplayFold(_, _)
DisplayFold(arena, events) ==
    IF events = <<>> THEN <<>>
    ELSE LET e == Head(events)
         IN  (IF e.tag = "Enter" /\ leaf_text_cow(arena, e.node).has
              THEN leaf_text_cow(arena, e.node).text ELSE <<>>)
             \o DisplayFold(arena, Tail(events))

Display(arena, node) ==
    LET r == WalkEvents(arena, node)
    IN  [text |-> DisplayFold(arena, r.events), ok |-> r.ok]

(***************************************************************************)
(* Mutation of a mutable tree (node.rs:139-236).  Each operator returns    *)
(* the arena afterwards, ok = FALSE when an unwrap or expect_branch inside *)
(* the method panics (the arena is then what the writes before the panic   *)
(* left), and for the inserts the id of the new node.                      *)
(***************************************************************************)
\* The loop `while let Some(current) = next` of remove (lines 160-162):
\* take() every slot of the sibling chain starting at next.
RECURSIVE FreeChildren(_, _)
FreeChildren(arena, next) ==
    IF next = None THEN [arena |-> arena, ok |-> TRUE]
    ELSE IF arena[next] = Tombstone THEN [arena |-> arena, ok |-> FALSE]
    ELSE FreeChildren([arena EXCEPT ![next] = Tombstone],
                      arena[next].next_sibling)

\* remove without the relinking of lines 164-170.
remove_norelink(arena, node) ==
    IF arena[node] = Tombstone THEN [arena |-> arena, ok |-> FALSE]
    ELSE
    LET repr == arena[node]
        a1 == [arena EXCEPT ![node] = Tombstone]
        swept == FreeChildren(a1, IF repr.content.tag = "Branch"
                                  THEN repr.content.child ELSE None)
    IN  [arena |-> swept.arena, ok |-> swept.ok]

\* remove that returns normally when the slot is already empty (take()
\* without the unwrap of line 153).
remove_noguard(arena, node) ==
    IF arena[node] = Tombstone THEN [arena |-> arena, ok |-> TRUE]
    ELSE
    LET repr == arena[node]
        a1 == [arena EXCEPT ![node] = Tombstone]
        swept == FreeChildren(a1, IF repr.content.tag = "Branch"
                                  THEN repr.content.child ELSE None)
        a2 == swept.arena
    IN  IF ~swept.ok THEN [arena |-> a2, ok |-> FALSE]
        ELSE IF repr.prev_sibling # None
        THEN IF a2[repr.prev_sibling] = Tombstone
             THEN [arena |-> a2, ok |-> FALSE]
             ELSE [arena |-> [a2 EXCEPT ![repr.prev_sibling].next_sibling =
                                              repr.next_sibling],
                   ok |-> TRUE]
        ELSE IF repr.parent # None
        THEN IF a2[repr.parent] = Tombstone
                \/ ~expect_branch_ok(a2[repr.parent].content)
             THEN [arena |-> a2, ok |-> FALSE]
             ELSE [arena |-> [a2 EXCEPT ![repr.parent].content.child =
                                              repr.next_sibling],
                   ok |-> TRUE]
        ELSE [arena |-> a2, ok |-> TRUE]

remove(arena, node) ==
    IF arena[node] = Tombstone THEN [arena |-> arena, ok |-> FALSE]
    ELSE
    LET repr == arena[node]
        a1 == [arena EXCEPT ![node] = Tombstone]
        swept == FreeChildren(a1, IF repr.content.tag = "Branch"
                                  THEN repr.content.child ELSE None)
        a2 == swept.arena
    IN  IF ~swept.ok THEN [arena |-> a2, ok |-> FALSE]
        ELSE IF repr.prev_sibling # None
        THEN IF a2[repr.prev_sibling] = Tombstone
             THEN [arena |-> a2, ok |-> FALSE]
             ELSE [arena |-> [a2 EXCEPT ![repr.prev_sibling].next_sibling =
                                              repr.next_sibling],
                   ok |-> TRUE]
        ELSE IF repr.parent # None
        THEN IF a2[repr.parent] = Tombstone
                \/ ~expect_branch_ok(a2[repr.parent].content)
             THEN [arena |-> a2, ok |-> FALSE]
             ELSE [arena |-> [a2 EXCEPT ![repr.parent].content.child =
                                              repr.next_sibling],
                   ok |-> TRUE]
        ELSE [arena |-> a2, ok |-> TRUE]

\* The match on content that makes a branch whatever it is given.
NewContent_branch(content) == Branch(None)

\* content: Option<SmolStr>, <<>> for None and <<text>> for Some(text).
NewContent(content) ==
    IF content = <<>> THEN Branch(None) ELSE Leaf(content[1])

\* insert_before without the update of the parent's first child
\* (lines 196-201).
insert_before_nofirst(arena, node, k, content) ==
    IF arena[node] = Tombstone
    THEN [arena |-> arena, ok |-> FALSE, id |-> None]
    ELSE
    LET repr == arena[node]
        id == VecLen(arena)
        a1 == VecPush(arena, NodeRepr(k, repr.parent, repr.prev_sibling,
                                      node, NewContent(content)))
        prevOk == repr.prev_sibling # None => a1[repr.prev_sibling] # Tombstone
        a2 == IF repr.prev_sibling # None /\ prevOk
              THEN [a1 EXCEPT ![repr.prev_sibling].next_sibling = id]
              ELSE a1
    IN  IF ~prevOk THEN [arena |-> a1, ok |-> FALSE, id |-> None]
        ELSE [arena |-> [a2 EXCEPT ![node].prev_sibling = id],
              ok |-> TRUE, id |-> id]

insert_before(arena, node, k, content) ==
    IF arena[node] = Tombstone
    THEN [arena |-> arena, ok |-> FALSE, id |-> None]
    ELSE
    LET repr == arena[node]
        id == VecLen(arena)
        a1 == VecPush(arena, NodeRepr(k, repr.parent, repr.prev_sibling,
                                      node, NewContent(content)))
        prevOk == repr.prev_sibling # None => a1[repr.prev_sibling] # Tombstone
        a2 == IF repr.prev_sibling # None /\ prevOk
              THEN [a1 EXCEPT ![repr.prev_sibling].next_sibling = id]
              ELSE a1
        parentOk == repr.parent # None => a2[repr.parent] # Tombstone
        a3 == IF repr.parent # None /\ parentOk
                 /\ a2[repr.parent].content = Branch(node)
              THEN [a2 EXCEPT ![repr.parent].content = Branch(id)]
              ELSE a2
    IN  IF ~prevOk THEN [arena |-> a1, ok |-> FALSE, id |-> None]
        ELSE IF ~parentOk THEN [arena |-> a2, ok |-> FALSE, id |-> None]
        ELSE [arena |-> [a3 EXCEPT ![node].prev_sibling = id],
              ok |-> TRUE, id |-> id]

\* insert_after that stores the new node in an empty slot when there is
\* one instead of pushing it.
insert_after_reuse(arena, node, k, content) ==
    IF arena[node] = Tombstone
    THEN [arena |-> arena, ok |-> FALSE, id |-> None]
    ELSE
    LET repr == arena[node]
        free == {n \in DOMAIN arena : arena[n] = Tombstone}
        id == IF free = {} THEN VecLen(arena)
              ELSE CHOOSE n \in free : \A m \in free : n <= m
        new == NodeRepr(k, repr.parent, node, repr.next_sibling,
                        NewContent(content))
        a1 == IF free = {} THEN VecPush(arena, new)
              ELSE [arena EXCEPT ![id] = new]
        nextOk == repr.next_sibling # None => a1[repr.next_sibling] # Tombstone
    IN  IF ~nextOk THEN [arena |-> a1, ok |-> FALSE, id |-> None]
        ELSE LET a2 == IF repr.next_sibling # None
                       THEN [a1 EXCEPT ![repr.next_sibling].prev_sibling = id]
                       ELSE a1
             IN  [arena |-> [a2 EXCEPT ![node].next_sibling = id],
                  ok |-> TRUE, id |-> id]

insert_after(arena, node, k, content) ==
    IF arena[node] = Tombstone
    THEN [arena |-> arena, ok |-> FALSE, id |-> None]
    ELSE
    LET repr == arena[node]
        id == VecLen(arena)
        a1 == VecPush(arena, NodeRepr(k, repr.parent, node,
                                      repr.next_sibling, NewContent(content)))
        nextOk == repr.next_sibling # None => a1[repr.next_sibling] # Tombstone
    IN  IF ~nextOk THEN [arena |-> a1, ok |-> FALSE, id |-> None]
        ELSE LET a2 == IF repr.next_sibling # None
                       THEN [a1 EXCEPT ![repr.next_sibling].prev_sibling = id]
                       ELSE a1
             IN  [arena |-> [a2 EXCEPT ![node].next_sibling = id],
                  ok |-> TRUE, id |-> id]

(***************************************************************************)
(* The guard of a mutable root (src/src/lock.rs): Lock is a RefCell in the *)
(* default build and an RwLock with the "thread" feature.  readers[t] is   *)
(* the number of shared guards thread t holds, writers the set of threads  *)
(* holding an exclusive guard.  read and write give the set of possible    *)
(* outcomes of the call; the empty set means the caller blocks.            *)
(***************************************************************************)
Disciplines == {"RefCell", "RwLock"}

\* The threads that hold handles to the tree.  With Rc (default build) the
\* handles cannot leave the thread that built the tree.
Threads == {"t1", "t2"}

Owner(l) == IF l.guard = "RefCell" THEN {"t1"} ELSE Threads

LockNew(guard) ==
    [guard |-> guard, readers |-> [t \in Threads |-> 0], writers |-> {},
     poisoned |-> FALSE]

Readers(l) == {t \in Threads : l.readers[t] > 0}

Acquired(l) == [res |-> "ok", lock |-> l]

\* The call panics: on a conflicting borrow, or on a poisoned lock.
Panicked(l) == [res |-> "conflict", lock |-> l]

Poisoned(l) == [res |-> "poisoned", lock |-> l]

\* Lock::read: RefCell::borrow panics when mutably borrowed;
\* RwLock::read blocks while a writer holds the lock, may panic when the
\* calling thread already holds it, and returns Err, which unwrap turns
\* into a panic, when the lock is poisoned.
read(l, t) ==
    LET got == Acquired([l EXCEPT !.readers[t] = @ + 1]) IN
    IF l.guard = "RefCell"
    THEN IF l.writers # {} THEN {Panicked(l)} ELSE {got}
    ELSE IF l.writers # {} THEN {}
         ELSE IF l.poisoned THEN {Poisoned(l)}
         ELSE IF l.readers[t] > 0 THEN {got, Panicked(l)}
         ELSE {got}

\* Lock::write that takes its guard whenever no other writer holds one.
write_shared(l, t) ==
    LET got == Acquired([l EXCEPT !.writers = @ \cup {t}]) IN
    IF l.guard = "RefCell"
    THEN IF l.writers # {} THEN {Panicked(l)} ELSE {got}
    ELSE IF l.writers # {} THEN {}
         ELSE IF l.poisoned THEN {Poisoned(l)}
         ELSE {got}

\* Lock::write: RefCell::borrow_mut panics when borrowed in any way;
\* RwLock::write blocks while any guard is out (it panics, or never
\* returns, when the calling thread holds one itself) and panics through
\* unwrap when the lock is poisoned.
write(l, t) ==
    LET got == Acquired([l EXCEPT !.writers = @ \cup {t}]) IN
    IF l.guard = "RefCell"
    THEN IF l.writers # {} \/ Readers(l) # {} THEN {Panicked(l)} ELSE {got}
    ELSE IF l.readers[t] > 0 THEN {Panicked(l)}
         ELSE IF l.writers # {} \/ Readers(l) # {} THEN {}
         ELSE IF l.poisoned THEN {Poisoned(l)}
         ELSE {got}

\* Dropping a guard at the end of the call that took it.
drop_read(l, t) == [l EXCEPT !.readers[t] = @ - 1]

drop_write(l, t) == [l EXCEPT !.writers = @ \ {t}]

\* A panic unwinds the thread: every guard it holds is dropped, and an
\* RwLock whose write guard is dropped while panicking is poisoned.
Unwind(l, t) ==
    [l EXCEPT !.readers[t] = 0,
              !.writers = @ \ {t},
              !.poisoned = @ \/ (l.guard = "RwLock" /\ t \in l.writers)]

\* The guards a public operation on a mutable tree takes and drops, in
\* order, with insert_before asking for the parent through the handle
\* while it holds its exclusive guard.
Steps_nested(op) ==
    IF op = "insert_before" THEN <<"write", "read", "drop", "drop">>
    ELSE IF op \in {"remove", "insert_after"} THEN <<"write", "drop">>
    ELSE IF op = "walker_next" THEN <<"read", "drop", "read", "drop">>
    ELSE <<"read", "drop">>

\* The guards a public operation on a mutable tree takes and drops, in
\* order.  A mutation takes data_mut once and drops it when it returns;
\* kind, parent, next_sibling, prev_sibling, first_child and leaf_text_cow
\* are one repr each, the guard being dropped when with_data returns;
\* NodeWalker::next on Leave(node) calls next_sibling and, when there is
\* none, parent, one after the other.
Steps(op) ==
    IF op \in {"remove", "insert_before", "insert_after"}
    THEN <<"write", "drop">>
    ELSE IF op = "walker_next" THEN <<"read", "drop", "read", "drop">>
    ELSE <<"read", "drop">>

Frame(op, node, args) == [op |-> op, node |-> node, args |-> args]

NoFrame == Frame("none", -1, <<>>)

\* frame: the call the thread is in, pc the index of its next step in
\* Steps, held the guards it holds, innermost last.
NoThreads == [t \in Threads |-> [frame |-> NoFrame, pc |-> 0, held |-> <<>>,
                                 status |-> "running", calls |-> 0]]

(***************************************************************************)
(* History variables.  hist counts the calls made so far and keeps the     *)
(* text passed to leaf; last describes the most recent call.               *)
(***************************************************************************)
\* open is the stack of the branches opened and not yet closed, and
\* under[id + 1] the branch that was innermost when node id was created.
NoHist == [input |-> <<>>, opened |-> 0, closed |-> 0, extra |-> 0,
           wraps |-> 0, muts |-> 0, stale |-> FALSE,
           open |-> <<>>, under |-> <<>>, orig |-> <<>>]

Top(stack) == IF stack = <<>> THEN None ELSE stack[Len(stack)]

Pop(stack) == IF stack = <<>> THEN <<>> ELSE SubSeq(stack, 1, Len(stack) - 1)

Call(op, node, ok, id, pre, args) ==
    [op |-> op, node |-> node, ok |-> ok, id |-> id, pre |-> pre,
     args |-> args]

NoCall == Call("new", None, TRUE, None, <<>>, <<>>)

NoOut == [ok |-> FALSE, node |-> None, data |-> NoData]

NoStage == [name |-> "none", k |-> "Group", rel |-> 0]

(***************************************************************************)
(* Specification Spec: a caller drives one TreeBuilder through any         *)
(* sequence of calls, then finishes it.                                    *)
(***************************************************************************)
Init ==
    /\ builder = Default
    /\ saved = NoCheckpoint
    /\ hist = NoHist
    /\ phase = "building"
    /\ root = None
    /\ data = NoData
    /\ last = NoCall
    /\ ref = Default
    /\ refOut = NoOut
    /\ stage = NoStage
    /\ lock = LockNew("RefCell")
    /\ threads = NoThreads

StartInternal ==
    /\ phase = "building"
    /\ VecLen(builder.arena) < MaxNodes
    /\ \E k \in BranchKinds : builder' = start_internal(builder, k)
    /\ hist' = [hist EXCEPT !.opened = @ + 1,
                            !.under = Append(@, Top(hist.open)),
                            !.open = Append(@, VecLen(builder.arena))]
    /\ UNCHANGED <<saved, phase, root, data, last, ref, refOut, stage,
                 lock, threads>>

LeafCall ==
    /\ phase = "building"
    /\ VecLen(builder.arena) < MaxNodes
    /\ \E k \in LeafKinds, text \in Texts :
          /\ builder' = leaf(builder, k, text)
          /\ hist' = [hist EXCEPT !.input = @ \o text,
                                  !.under = Append(@, Top(hist.open))]
    /\ UNCHANGED <<saved, phase, root, data, last, ref, refOut, stage,
                 lock, threads>>

FinishInternal ==
    /\ phase = "building"
    /\ builder.parent # None \/ hist.extra < MaxExtraClose
    /\ IF finish_internal_ok(builder)
       THEN /\ builder' = finish_internal(builder)
            /\ phase' = phase
       ELSE /\ builder' = builder
            /\ phase' = "aborted"
    /\ hist' = [hist EXCEPT !.closed = @ + 1,
                            !.extra = IF builder.parent = None THEN @ + 1 ELSE @,
                            !.open = Pop(@)]
    /\ UNCHANGED <<saved, root, data, last, ref, refOut, stage,
                 lock, threads>>

TakeCheckpoint ==
    /\ phase = "building"
    /\ saved' = checkpoint(builder)
    /\ UNCHANGED <<builder, hist, phase, root, data, last, ref, refOut, stage,
                 lock, threads>>

StartInternalAt ==
    /\ phase = "building"
    /\ saved # NoCheckpoint
    /\ VecLen(builder.arena) < MaxNodes
    /\ \E k \in BranchKinds : builder' = start_internal_at(builder, saved, k)
    /\ hist' = [hist EXCEPT !.opened = @ + 1, !.wraps = @ + 1,
                            !.under = Append(@, Top(hist.open)),
                            !.open = Append(@, VecLen(builder.arena))]
    /\ UNCHANGED <<saved, phase, root, data, last, ref, refOut, stage,
                 lock, threads>>

Finish ==
    /\ phase = "building"
    /\ IF finish_ok(builder)
       THEN /\ phase' = "immutable"
            /\ root' = finish(builder).node
            /\ data' = finish(builder).data
       ELSE /\ phase' = "aborted"
            /\ UNCHANGED <<root, data>>
    /\ UNCHANGED <<builder, saved, hist, last, ref, refOut, stage,
                 lock, threads>>

FinishMut ==
    /\ phase = "building"
    /\ IF finish_ok(builder)
       THEN /\ phase' = "mutable"
            /\ root' = finish_mut(builder).node
            /\ data' = finish_mut(builder).data
       ELSE /\ phase' = "aborted"
            /\ UNCHANGED <<root, data>>
    /\ UNCHANGED <<builder, saved, hist, last, ref, refOut, stage,
                 lock, threads>>

Next ==
    \/ StartInternal
    \/ LeafCall
    \/ FinishInternal
    \/ TakeCheckpoint
    \/ StartInternalAt
    \/ Finish
    \/ FinishMut

Spec == Init /\ [][Next]_vars

(***************************************************************************)
(* Specification SpecMut: a finished mutable tree under a sequence of      *)
(* remove / insert_before / insert_after calls made through handles.  The  *)
(* initial trees are the results of finish_mut on every balanced           *)
(* start_internal / leaf / finish_internal sequence of at most MaxInit     *)
(* nodes; leaf number n carries the text <<n>> as a string.                *)
(***************************************************************************)
InitText(id) == <<ToString(id)>>

RECURSIVE Builds(_)
Builds(n) ==
    IF n = 0 THEN {Default}
    ELSE LET prev == Builds(n - 1)
             room == {b \in prev : VecLen(b.arena) < MaxInit}
         IN  prev
             \cup {start_internal(b, "Group") : b \in room}
             \cup {leaf(b, "Number", InitText(VecLen(b.arena))) : b \in room}
             \cup {finish_internal(b) : b \in {x \in prev : x.parent # None}}

InitTrees ==
    {finish_mut(b) : b \in {x \in Builds(2 * MaxInit) :
                               x.parent = None /\ finish_ok(x)}}

InitMut ==
    /\ builder = Default
    /\ saved = NoCheckpoint
    /\ phase = "mutable"
    /\ \E t \in InitTrees :
          /\ root = t.node
          /\ data = t.data
          /\ hist = [NoHist EXCEPT !.orig = t.data.arena]
    /\ last = NoCall
    /\ ref = Default
    /\ refOut = NoOut
    /\ stage = NoStage
    /\ lock = LockNew("RefCell")
    /\ threads = NoThreads

\* A handle is live when its node's slot and the slot of every ancestor
\* are occupied.
RECURSIVE LiveFrom(_, _, _)
LiveFrom(arena, node, fuel) ==
    /\ arena[node] # Tombstone
    /\ fuel > 0
    /\ arena[node].parent # None => LiveFrom(arena, arena[node].parent, fuel - 1)

Live(arena, node) == LiveFrom(arena, node, VecLen(arena))

Remove ==
    /\ phase = "mutable"
    /\ hist.muts < MaxMut
    /\ \E node \in DOMAIN data.arena :
          LET r == remove(data.arena, node) IN
          /\ data' = [data EXCEPT !.arena = r.arena]
          /\ phase' = IF r.ok THEN "mutable" ELSE "aborted"
          /\ last' = Call("remove", node, r.ok, None, data.arena, <<>>)
          /\ hist' = [hist EXCEPT !.muts = @ + 1,
                          !.stale = @ \/ ~Live(data.arena, node)]
    /\ UNCHANGED <<builder, saved, root, ref, refOut, stage,
                 lock, threads>>

InsertBefore ==
    /\ phase = "mutable"
    /\ hist.muts < MaxMut
    /\ \E node \in DOMAIN data.arena, k \in InsertKinds,
          content \in InsertContents :
          LET r == insert_before(data.arena, node, k, content) IN
          /\ data' = [data EXCEPT !.arena = r.arena]
          /\ phase' = IF r.ok THEN "mutable" ELSE "aborted"
          /\ last' = Call("insert_before", node, r.ok, r.id, data.arena,
                          <<k, content>>)
          /\ hist' = [hist EXCEPT !.muts = @ + 1,
                          !.stale = @ \/ ~Live(data.arena, node)]
    /\ UNCHANGED <<builder, saved, root, ref, refOut, stage,
                 lock, threads>>

InsertAfter ==
    /\ phase = "mutable"
    /\ hist.muts < MaxMut
    /\ \E node \in DOMAIN data.arena, k \in InsertKinds,
          content \in InsertContents :
          LET r == insert_after(data.arena, node, k, content) IN
          /\ data' = [data EXCEPT !.arena = r.arena]
          /\ phase' = IF r.ok THEN "mutable" ELSE "aborted"
          /\ last' = Call("insert_after", node, r.ok, r.id, data.arena,
                          <<k, content>>)
          /\ hist' = [hist EXCEPT !.muts = @ + 1,
                          !.stale = @ \/ ~Live(data.arena, node)]
    /\ UNCHANGED <<builder, saved, root, ref, refOut, stage,
                 lock, threads>>

NextMut ==
    \/ Remove
    \/ InsertBefore
    \/ InsertAfter

SpecMut == InitMut /\ [][NextMut]_vars

(***************************************************************************)
(* Auxiliary definitions for the properties of SpecMut.                    *)
(***************************************************************************)
\* n is X or a descendant of X: X lies on n's parent chain.
RECURSIVE InSubtree(_, _, _, _)
InSubtree(arena, n, X, fuel) ==
    \/ n = X
    \/ /\ fuel > 0
       /\ arena[n] # Tombstone
       /\ arena[n].parent # None
       /\ InSubtree(arena, arena[n].parent, X, fuel - 1)

Desc(arena, X) ==
    {n \in DOMAIN arena : InSubtree(arena, n, X, VecLen(arena))}

RECURSIVE Without(_, _)
Without(seq, S) ==
    IF seq = <<>> THEN <<>>
    ELSE (IF Head(seq) \in S THEN <<>> ELSE <<Head(seq)>>)
         \o Without(Tail(seq), S)

RECURSIVE WithoutEvents(_, _)
WithoutEvents(events, S) ==
    IF events = <<>> THEN <<>>
    ELSE (IF Head(events).node \in S THEN <<>> ELSE <<Head(events)>>)
         \o WithoutEvents(Tail(events), S)

RECURSIVE InsertNextTo(_, _, _, _)
InsertNextTo(seq, R, N, before) ==
    IF seq = <<>> THEN <<>>
    ELSE (IF Head(seq) = R
          THEN (IF before THEN <<N, R>> ELSE <<R, N>>)
          ELSE <<Head(seq)>>)
         \o InsertNextTo(Tail(seq), R, N, before)

Range(seq) == {seq[i] : i \in DOMAIN seq}

Removed == last.op = "remove" /\ last.ok

LiveOnly == ~hist.stale

\* C3: after remove(X) on a non-root node X of a tree whose root is in
\* place, the walk from the root and
\* the children-iteration of every remaining node yield what they yielded
\* before without X and X's descendants, in the same order, and a parent
\* whose first child was X has X's former next sibling as first child.
C3_RemoveTraversal ==
    (Removed /\ LiveOnly /\ last.node # root /\ Live(last.pre, root)) =>
        LET pre == last.pre
            post == data.arena
            X == last.node
            gone == Desc(pre, X)
            before == WalkEvents(pre, root)
            after == WalkEvents(post, root)
            P == pre[X].parent
        IN  /\ before.ok
            /\ after.ok
            /\ after.events = WithoutEvents(before.events, gone)
            /\ \A n \in DOMAIN pre \ gone :
                  Live(pre, n) =>
                      /\ children(post, n).ok
                      /\ children(post, n).items =
                             Without(children(pre, n).items, gone)
            /\ (P # None /\ first_child(pre, P) = X) =>
                   first_child(post, P) = pre[X].next_sibling

\* A first child with children of its own and a next sibling was removed.
C3_Witness ==
    /\ Removed /\ LiveOnly /\ last.node # root /\ Live(last.pre, root)
    /\ last.pre[last.node].parent # None
    /\ first_child(last.pre, last.pre[last.node].parent) = last.node
    /\ first_child(last.pre, last.node) # None
    /\ last.pre[last.node].next_sibling # None
    /\ last.node \in Range([i \in 1 .. Len(WalkEvents(last.pre, root).events)
                              |-> WalkEvents(last.pre, root).events[i].node])

\* C4: after remove(X), X's former previous sibling P and next sibling N
\* are linked to each other in both directions (a missing one leaves the
\* other with no link on that side).
C4_RemoveLinksBothWays ==
    (Removed /\ LiveOnly) =>
        LET pre == last.pre
            post == data.arena
            P == pre[last.node].prev_sibling
            N == pre[last.node].next_sibling
        IN  /\ (P # None) => next_sibling(post, P) = N
            /\ (N # None) => prev_sibling(post, N) = P

\* C5: after remove(X) the slots of X and of all its descendants are empty.
C5_RemoveTombstonesSubtree ==
    Removed =>
        \A n \in Desc(last.pre, last.node) : data.arena[n] = Tombstone

\* The links of the live part of the graph agree with each other.
Consistent(arena) ==
    \A n \in DOMAIN arena :
        Live(arena, n) =>
            /\ next_sibling(arena, n) # None =>
                  /\ Live(arena, next_sibling(arena, n))
                  /\ prev_sibling(arena, next_sibling(arena, n)) = n
            /\ prev_sibling(arena, n) # None =>
                  /\ Live(arena, prev_sibling(arena, n))
                  /\ next_sibling(arena, prev_sibling(arena, n)) = n
            /\ first_child(arena, n) # None =>
                  /\ Live(arena, first_child(arena, n))
                  /\ prev_sibling(arena, first_child(arena, n)) = None
            /\ children(arena, n).ok
            /\ Range(children(arena, n).items) =
                  {m \in DOMAIN arena : Live(arena, m) /\ parent(arena, m) = n}

\* C6: after any sequence of mutations made on live handles the graph is
\* internally consistent.
C6_GraphConsistent ==
    (phase = "mutable" /\ LiveOnly) => Consistent(data.arena)

\* C7: a mutation invoked on a live handle, after mutations that were all
\* invoked on live handles, completes.
C7_LiveMutationCompletes ==
    (last.op \in {"remove", "insert_before", "insert_after"} /\ LiveOnly)
        => last.ok

NoTombstone(arena) == \A n \in DOMAIN arena : arena[n] # Tombstone

Inserted == last.op \in {"insert_before", "insert_after"}

\* C8: in a tree that has seen only inserts, insert_before / insert_after
\* on R returns a fresh node N with R's parent, listed by the parent's
\* children-iteration immediately before / after R with the other
\* siblings in their previous order; N is a leaf with the given text, or
\* an empty branch when no text is given.
C8_InsertPlacesNode ==
    (Inserted /\ NoTombstone(last.pre)) =>
        LET pre == last.pre
            post == data.arena
            R == last.node
            N == last.id
            P == pre[R].parent
        IN  /\ last.ok
            /\ N \notin DOMAIN pre
            /\ N \in DOMAIN post
            /\ kind(post, N) = last.args[1]
            /\ parent(post, N) = P
            /\ parent(post, R) = P
            /\ P # None =>
                  /\ children(post, P).ok
                  /\ children(post, P).items =
                        InsertNextTo(children(pre, P).items, R, N,
                                     last.op = "insert_before")
            /\ IF last.args[2] = <<>>
               THEN post[N].content = Branch(None)
               ELSE post[N].content = Leaf(last.args[2][1])
            /\ \A n \in DOMAIN pre \ {P} :
                  children(post, n).items = children(pre, n).items

\* An insert before a first child that has a next sibling, after an
\* earlier insert.
C8_Witness ==
    /\ Inserted /\ NoTombstone(last.pre) /\ last.ok
    /\ last.op = "insert_before"
    /\ hist.muts >= 2
    /\ last.pre[last.node].parent # None
    /\ first_child(last.pre, last.pre[last.node].parent) = last.node
    /\ last.pre[last.node].next_sibling # None
    /\ last.args[2] # <<>>

(***************************************************************************)
(* Properties of the builder (specification Spec).                         *)
(***************************************************************************)
Finished == phase \in {"immutable", "mutable"}

\* Only start_internal / leaf / finish_internal were called, no
\* finish_internal came with nothing open, and every branch was closed.
Balanced == hist.wraps = 0 /\ hist.extra = 0 /\ hist.opened = hist.closed

\* C1: for a balanced sequence of start_internal / leaf / finish_internal
\* calls, Display of the finished node is the concatenation of the texts
\* passed to leaf, in call order.
C1_RoundTrip ==
    (Finished /\ Balanced) =>
        Display(data.arena, root) = [text |-> hist.input, ok |-> TRUE]

\* A finished tree with a nested branch and leaves on two levels.
C1_Witness ==
    /\ Finished /\ Balanced
    /\ hist.opened >= 2
    /\ Len(hist.input) >= 3
    /\ \E n \in DOMAIN data.arena :
          /\ data.arena[n].content.tag = "Leaf"
          /\ data.arena[n].prev_sibling # None
          /\ data.arena[data.arena[n].prev_sibling].content.tag = "Branch"

\* C9: finish and finish_mut return a tree only when every opened branch
\* has been closed, so every range of an immutable tree has its end.
C9_FinishRequiresClosed ==
    Finished =>
        /\ hist.opened <= hist.closed
        /\ phase = "immutable" =>
              \A n \in DOMAIN data.ranges : data.ranges[n][2] # None

TopLevel(arena) ==
    {n \in DOMAIN arena : arena[n] # Tombstone /\ arena[n].parent = None}

\* C10: finish and finish_mut return a tree only when the arena holds
\* exactly one top-level node, and that node is the returned root.
C10_FinishRequiresOneTopLevel ==
    Finished => TopLevel(data.arena) = {root}

(***************************************************************************)
(* Specification SpecCp: the same input built two ways, in lockstep.       *)
(* builder takes a checkpoint, builds a suffix of siblings and wraps it    *)
(* with start_internal_at; ref calls start_internal where builder takes    *)
(* the checkpoint.  Every other call is made on both.  stage.k is the kind *)
(* of the wrapping branch and stage.rel the nesting inside the suffix.     *)
(***************************************************************************)
InitCp ==
    /\ builder = Default
    /\ saved = NoCheckpoint
    /\ hist = NoHist
    /\ phase = "building"
    /\ root = None
    /\ data = NoData
    /\ last = NoCall
    /\ ref = Default
    /\ refOut = NoOut
    /\ stage = [name |-> "prefix", k |-> "Group", rel |-> 0]
    /\ lock = LockNew("RefCell")
    /\ threads = NoThreads

CpStartInternal ==
    /\ stage.name \in {"prefix", "suffix", "tail"}
    /\ VecLen(ref.arena) < MaxCpNodes
    /\ \E k \in BranchKinds :
          /\ builder' = start_internal(builder, k)
          /\ ref' = start_internal(ref, k)
    /\ stage' = IF stage.name = "suffix"
                THEN [stage EXCEPT !.rel = @ + 1] ELSE stage
    /\ hist' = [hist EXCEPT !.opened = @ + 1]
    /\ UNCHANGED <<saved, phase, root, data, last, refOut,
                 lock, threads>>

CpLeaf ==
    /\ stage.name \in {"prefix", "suffix", "tail"}
    /\ VecLen(ref.arena) < MaxCpNodes
    /\ \E k \in LeafKinds, text \in Texts :
          /\ builder' = leaf(builder, k, text)
          /\ ref' = leaf(ref, k, text)
          /\ hist' = [hist EXCEPT !.input = @ \o text]
    /\ UNCHANGED <<saved, phase, root, data, last, refOut, stage,
                 lock, threads>>

CpFinishInternal ==
    /\ stage.name \in {"prefix", "suffix", "tail"}
    /\ ref.parent # None
    /\ stage.name = "suffix" => stage.rel > 0
    /\ builder' = finish_internal(builder)
    /\ ref' = finish_internal(ref)
    /\ stage' = IF stage.name = "suffix"
                THEN [stage EXCEPT !.rel = @ - 1] ELSE stage
    /\ hist' = [hist EXCEPT !.closed = @ + 1]
    /\ UNCHANGED <<saved, phase, root, data, last, refOut,
                 lock, threads>>

CpCheckpoint ==
    /\ stage.name = "prefix"
    /\ VecLen(ref.arena) < MaxCpNodes
    /\ saved' = checkpoint(builder)
    /\ \E k \in WrapKinds :
          /\ ref' = start_internal(ref, k)
          /\ stage' = [name |-> "suffix", k |-> k, rel |-> 0]
    /\ UNCHANGED <<builder, hist, phase, root, data, last, refOut,
                 lock, threads>>

CpStartInternalAt ==
    /\ stage.name = "suffix"
    /\ stage.rel = 0
    /\ builder' = start_internal_at(builder, saved, stage.k)
    /\ stage' = [stage EXCEPT !.name = "wrapped"]
    /\ hist' = [hist EXCEPT !.opened = @ + 1, !.wraps = @ + 1]
    /\ UNCHANGED <<saved, phase, root, data, last, ref, refOut,
                 lock, threads>>

CpClose ==
    /\ stage.name = "wrapped"
    /\ builder' = finish_internal(builder)
    /\ ref' = finish_internal(ref)
    /\ stage' = [stage EXCEPT !.name = "tail"]
    /\ hist' = [hist EXCEPT !.closed = @ + 1]
    /\ UNCHANGED <<saved, phase, root, data, last, refOut,
                 lock, threads>>

CpFinish ==
    /\ stage.name = "tail"
    /\ ref.parent = None
    /\ refOut' = IF finish_ok(ref)
                 THEN [ok |-> TRUE, node |-> finish(ref).node,
                       data |-> finish(ref).data]
                 ELSE NoOut
    /\ IF finish_ok(builder)
       THEN /\ phase' = "immutable"
            /\ root' = finish(builder).node
            /\ data' = finish(builder).data
       ELSE /\ phase' = "aborted"
            /\ UNCHANGED <<root, data>>
    /\ stage' = [stage EXCEPT !.name = "done"]
    /\ UNCHANGED <<builder, saved, hist, last, ref,
                 lock, threads>>

NextCp ==
    \/ CpStartInternal
    \/ CpLeaf
    \/ CpFinishInternal
    \/ CpCheckpoint
    \/ CpStartInternalAt
    \/ CpClose
    \/ CpFinish

SpecCp == InitCp /\ [][NextCp]_vars

\* The kinds of the nodes in the order a depth-first walk enters them.
RECURSIVE KindFold(_, _)
KindFold(arena, events) ==
    IF events = <<>> THEN <<>>
    ELSE (IF Head(events).tag = "Enter"
          THEN <<kind(arena, Head(events).node)>> ELSE <<>>)
         \o KindFold(arena, Tail(events))

DfsKinds(arena, node) ==
    LET r == WalkEvents(arena, node)
    IN  [kinds |-> KindFold(arena, r.events), ok |-> r.ok]

\* C2: when the explicit build finishes, the checkpoint build finishes
\* too, with the same Display text and the same depth-first kinds.
C2_CheckpointEquivalence ==
    (stage.name = "done" /\ refOut.ok) =>
        /\ phase = "immutable"
        /\ Display(data.arena, root) =
               Display(refOut.data.arena, refOut.node)
        /\ DfsKinds(data.arena, root) =
               DfsKinds(refOut.data.arena, refOut.node)


\* C11: finish_internal called when no branch is open aborts.
C11_StrayCloseAborts ==
    hist.extra > 0 => phase = "aborted"


\* The range table of an immutable tree: every range is resolved and
\* ordered, a childless branch has an empty range, and the ranges of the
\* children of a branch are contiguous and span the range of the branch.
RangesOk(d) ==
    \A n \in DOMAIN d.arena :
        LET r == d.ranges[n]
            kids == children(d.arena, n).items
        IN  /\ r[2] # None
            /\ r[1] <= r[2]
            /\ d.arena[n].content.tag = "Branch" =>
                  IF kids = <<>>
                  THEN r[2] = r[1]
                  ELSE /\ d.ranges[kids[1]][1] = r[1]
                       /\ d.ranges[kids[Len(kids)]][2] = r[2]
                       /\ \A i \in 1 .. Len(kids) - 1 :
                             d.ranges[kids[i]][2] = d.ranges[kids[i + 1]][1]

\* C12: the immutable tree of a balanced build, whose retroactive wrap is
\* made at the depth of its checkpoint, has a well-formed range table.
C12_RangeContainment ==
    (stage.name = "done" /\ phase = "immutable") => RangesOk(data)


\* The nodes created while n was the innermost open branch, in the order
\* of their creation, according to the history of calls.
RECURSIVE KidsFrom(_, _, _)
KidsFrom(under, n, i) ==
    IF i > Len(under) THEN <<>>
    ELSE (IF under[i] = n THEN <<i - 1>> ELSE <<>>) \o KidsFrom(under, n, i + 1)

ExpectedKids(n) == KidsFrom(hist.under, n, 1)

\* C13: in a tree built by a balanced start_internal / leaf /
\* finish_internal sequence, first_child and next_sibling enumerate the
\* children of every node in insertion order, each child has the node as
\* parent, prev_sibling names the predecessor, the first child has no
\* prev_sibling and the last no next_sibling.
C13_SiblingChains ==
    (Finished /\ Balanced) =>
        \A n \in DOMAIN data.arena :
            LET it == children(data.arena, n)
                kids == it.items
            IN  /\ it.ok
                /\ kids = ExpectedKids(n)
                /\ \A i \in 1 .. Len(kids) :
                      /\ parent(data.arena, kids[i]) = n
                      /\ prev_sibling(data.arena, kids[i]) =
                            (IF i = 1 THEN None ELSE kids[i - 1])
                      /\ next_sibling(data.arena, kids[i]) =
                            (IF i = Len(kids) THEN None ELSE kids[i + 1])

\* A branch with several children, one of them a branch that has a child
\* of its own and a next sibling.
C13_Witness ==
    /\ Finished /\ Balanced
    /\ \E n \in DOMAIN data.arena :
          /\ Len(children(data.arena, n).items) >= 2
          /\ \E m \in Range(children(data.arena, n).items) :
                /\ first_child(data.arena, m) # None
                /\ next_sibling(data.arena, m) # None


\* The event sequence a depth-first descent of the recorded call history
\* gives for the subtree of n, n itself at the given depth.
RECURSIVE ExpectedWalk(_, _, _)
ExpectedWalk(n, depth, fuel) ==
    LET kids == ExpectedKids(n)
        sub[i \in 0 .. Len(kids)] ==
            IF i = 0 \/ fuel = 0 THEN <<>>
            ELSE sub[i - 1] \o ExpectedWalk(kids[i], depth + 1, fuel - 1)
    IN  <<[nested |-> depth, tag |-> "Enter", node |-> n]>>
        \o sub[Len(kids)]
        \o <<[nested |-> depth, tag |-> "Leave", node |-> n]>>

\* The walker after k calls of next.
RECURSIVE WalkerAfter(_, _, _)
WalkerAfter(arena, w, k) ==
    IF k = 0 THEN w
    ELSE WalkerAfter(arena, NodeWalkerNext(arena, w).w, k - 1)

\* C14: in a tree built by a balanced call sequence, walk() started at any
\* node S yields exactly the depth-first Enter/Leave sequence of S's
\* subtree, from Enter(S) at depth 0 to Leave(S) at depth 0, children in
\* sibling order one level deeper than their parent, nothing outside the
\* subtree; every further call of next yields nothing.
C14_WalkSubtree ==
    (Finished /\ Balanced) =>
        \A S \in DOMAIN data.arena :
            LET run == WalkEvents(data.arena, S)
                w1 == WalkerAfter(data.arena, walk(S), Len(run.events))
                w2 == NodeWalkerNext(data.arena, w1).w
            IN  /\ run.ok
                /\ run.events = ExpectedWalk(S, 0, VecLen(data.arena))
                /\ NodeWalkerNext(data.arena, w1).event = NoEvent
                /\ NodeWalkerNext(data.arena, w2).event = NoEvent

\* A walk started at a branch that is not the root and has a next sibling.
C14_Witness ==
    /\ Finished /\ Balanced
    /\ \E S \in DOMAIN data.arena :
          LET ev == WalkEvents(data.arena, S).events
          IN  /\ parent(data.arena, S) # None
              /\ next_sibling(data.arena, S) # None
              /\ Len(ev) >= 4
              /\ ev[Len(ev)] = [nested |-> 0, tag |-> "Leave", node |-> S]


\* C15: a handle whose node, or an ancestor of whose node, has been removed
\* cannot be used: every navigation call through it (kind, parent,
\* next_sibling, prev_sibling, first_child all start with repr) aborts, and
\* a mutation through it aborts and leaves the arena as it was.
C15_StaleHandleAborts ==
    /\ phase = "mutable" =>
          \A n \in DOMAIN data.arena :
              ~Live(data.arena, n) => ~repr_ok(data.arena, n)
    /\ (last.op \in {"remove", "insert_before", "insert_after"}
          /\ ~Live(last.pre, last.node)) =>
              /\ ~last.ok
              /\ data.arena = last.pre


\* C16: remove through a handle whose slot is already empty aborts, and
\* every slot and every link of the arena is what it was before the call.
C16_RemoveTwiceAborts ==
    (last.op = "remove" /\ last.pre[last.node] = Tombstone) =>
        /\ ~last.ok
        /\ phase = "aborted"
        /\ data.arena = last.pre

\* A second remove of the same kind of handle: the slot was emptied by an
\* earlier remove that returned, while other slots are still occupied.
C16_Witness ==
    /\ last.op = "remove"
    /\ hist.muts = 2
    /\ last.pre[last.node] = Tombstone
    /\ \E n \in DOMAIN last.pre : last.pre[n] # Tombstone
    /\ phase = "aborted"


\* What makes a slot's occupant the node it is: its kind and its own
\* content (links aside).
Identity(r) ==
    IF r = Tombstone THEN <<>>
    ELSE <<r.kind, r.content.tag, r.content.text>>

\* C18: a mutation never shrinks the arena, never refills an empty slot and
\* never puts another node in an occupied one; an insert that returns has
\* pushed exactly one node, whose identifier is the arena length before
\* the call, and remove pushes nothing.
C18_ArenaOnlyGrows ==
    last.op \in {"remove", "insert_before", "insert_after"} =>
        /\ VecLen(data.arena) >= VecLen(last.pre)
        /\ \A n \in DOMAIN last.pre :
              /\ last.pre[n] = Tombstone => data.arena[n] = Tombstone
              /\ data.arena[n] # Tombstone =>
                    Identity(data.arena[n]) = Identity(last.pre[n])
        /\ last.op = "remove" => VecLen(data.arena) = VecLen(last.pre)
        /\ (last.op # "remove" /\ last.ok) =>
              /\ last.id = VecLen(last.pre)
              /\ VecLen(data.arena) = VecLen(last.pre) + 1
              /\ Identity(data.arena[last.id]) =
                    <<last.args[1], NewContent(last.args[2]).tag,
                      NewContent(last.args[2]).text>>

\* An insert_after that returned although the arena had an empty slot.
C18_Witness ==
    /\ last.op = "insert_after"
    /\ last.ok
    /\ \E n \in DOMAIN last.pre : last.pre[n] = Tombstone
    /\ last.id = VecLen(last.pre)
    /\ data.arena[last.id] # Tombstone


RECURSIVE DisplayWith(_, _, _, _)
DisplayWith(arena, events, n, t) ==
    IF events = <<>> THEN <<>>
    ELSE LET e == Head(events)
         IN  (IF e.tag = "Enter" /\ arena[e.node].content.tag = "Leaf"
              THEN (IF e.node = n THEN t ELSE arena[e.node].content.text)
              ELSE <<>>)
             \o DisplayWith(arena, Tail(events), n, t)

\* The tree is the one finish_mut returned plus one insert_after of a leaf
\* with text after leaf n, and the last call is remove(n).
Replaced(n, k, c) ==
    /\ hist.muts = 2
    /\ last.op = "remove"
    /\ last.node = n
    /\ hist.orig[n].content.tag = "Leaf"
    /\ c # <<>>
    /\ last.pre = insert_after(hist.orig, n, k, c).arena

\* insert_after(n, k, Some t) on a leaf n of the tree finish_mut returned
\* completes, remove(n) after it completes, and Display of the root is then
\* the Display before with t in the place of n's text.
ReplaceShows(n, k, c) ==
    /\ insert_after(hist.orig, n, k, c).ok
    /\ last.ok
    /\ Display(data.arena, root).ok
    /\ Display(data.arena, root).text =
          DisplayWith(hist.orig, WalkEvents(hist.orig, root).events, n, c[1])

\* The first of the two calls, insert_after with a text on a leaf of the
\* tree finish_mut returned, has not aborted.
FirstInsertReturns ==
    (/\ hist.muts = 1
     /\ last.op = "insert_after"
     /\ last.pre[last.node].content.tag = "Leaf"
     /\ last.args[2] # <<>>) => last.ok

\* C20 as stated: for every leaf n of a finished mutable tree,
\* insert_after(n, kind, t) followed by remove(n) completes and Display of
\* the root is the Display before with n's text replaced by t.
C20_ReplaceAnyLeaf ==
    /\ FirstInsertReturns
    /\ \A n \in DOMAIN hist.orig, k \in InsertKinds,
          c \in InsertContents :
          Replaced(n, k, c) => ReplaceShows(n, k, c)

\* C20, amended: the same for every leaf n other than the root.
C20_ReplaceLeaf ==
    /\ FirstInsertReturns
    /\ \A n \in DOMAIN hist.orig \ {root}, k \in InsertKinds,
          c \in InsertContents :
          Replaced(n, k, c) => ReplaceShows(n, k, c)

\* A replaced leaf that had a sibling on each side.
C20_Witness ==
    \E n \in DOMAIN hist.orig \ {root}, k \in InsertKinds,
       c \in InsertContents :
        /\ Replaced(n, k, c)
        /\ last.ok
        /\ hist.orig[n].prev_sibling # None
        /\ hist.orig[n].next_sibling # None
        /\ Display(data.arena, root).text # Display(hist.orig, root).text


(***************************************************************************)
(* SpecLock: threads working on one mutable tree through the public        *)
(* operations of Node.  A call runs the steps of Steps: it takes its guard *)
(* (with_data for the reading calls, data_mut for the mutations), does its *)
(* work on the arena and drops the guard.  A panic ends the thread that    *)
(* panicked.                                                               *)
(***************************************************************************)
LockTrees == {t \in InitTrees : VecLen(t.data.arena) <= MaxLockInit}

InitLock ==
    /\ builder = Default
    /\ saved = NoCheckpoint
    /\ hist = NoHist
    /\ phase = "mutable"
    /\ \E t \in LockTrees : root = t.node /\ data = t.data
    /\ last = NoCall
    /\ ref = Default
    /\ refOut = NoOut
    /\ stage = NoStage
    /\ \E g \in Disciplines : lock = LockNew(g)
    /\ threads = NoThreads

RECURSIVE SumCalls(_)
SumCalls(S) ==
    IF S = {} THEN 0
    ELSE LET t == CHOOSE x \in S : TRUE
         IN  threads[t].calls + SumCalls(S \ {t})

\* Thread t is between two calls.
CanCall(t) ==
    /\ t \in Owner(lock)
    /\ threads[t].status = "running"
    /\ threads[t].frame = NoFrame
    /\ SumCalls(Threads) < MaxLockOps

\* Thread t, whose record is th, takes guard g ("read" or "write"): it
\* holds the guard and moves to its next step, or the attempt panics and
\* the thread unwinds.
Take(t, th, g) ==
    \E o \in (IF g = "read" THEN read(lock, t) ELSE write(lock, t)) :
        IF o.res = "ok"
        THEN /\ lock' = o.lock
             /\ threads' = [threads EXCEPT ![t] =
                               [th EXCEPT !.held = Append(@, g),
                                          !.pc = @ + 1]]
        ELSE /\ lock' = Unwind(lock, t)
             /\ threads' = [threads EXCEPT ![t] =
                               [th EXCEPT !.frame = NoFrame, !.pc = 0,
                                          !.held = <<>>,
                                          !.status = o.res]]

\* A thread calls a public operation through a handle; the operation
\* takes its first guard.
CallOp ==
    /\ \E t \in Threads, node \in DOMAIN data.arena,
          op \in {"repr", "walker_next", "remove", "insert_before",
                  "insert_after"},
          k \in InsertKinds, content \in InsertContents :
          /\ CanCall(t)
          /\ op \in {"repr", "walker_next", "remove"} => content = <<>>
          /\ Take(t, [threads[t] EXCEPT !.frame = Frame(op, node, <<k, content>>),
                                        !.pc = 1, !.calls = @ + 1],
                  Steps(op)[1])
    /\ UNCHANGED <<builder, saved, hist, phase, root, data, last, ref,
                   refOut, stage>>

\* A later step of a call that takes a guard.
Acquire ==
    /\ \E t \in Threads :
          /\ threads[t].frame # NoFrame
          /\ threads[t].pc > 1
          /\ Steps(threads[t].frame.op)[threads[t].pc] \in {"read", "write"}
          /\ Take(t, threads[t], Steps(threads[t].frame.op)[threads[t].pc])
    /\ UNCHANGED <<builder, saved, hist, phase, root, data, last, ref,
                   refOut, stage>>

\* What the call does under the guard it is about to drop: a mutation
\* rewrites the arena, a reading call unwraps the handle's slot.
Work(f, g) ==
    IF g = "read"
    THEN [arena |-> data.arena, ok |-> repr_ok(data.arena, f.node)]
    ELSE IF f.op = "remove" THEN remove(data.arena, f.node)
    ELSE IF f.op = "insert_before"
    THEN insert_before(data.arena, f.node, f.args[1], f.args[2])
    ELSE insert_after(data.arena, f.node, f.args[1], f.args[2])

\* The call is over after its last step, and NodeWalker::next after its
\* first reading when the node has a next sibling.
Returns(f, pc) ==
    \/ pc = Len(Steps(f.op))
    \/ f.op = "walker_next" /\ next_sibling(data.arena, f.node) # None

\* A step that drops the innermost guard: the work under the guard is
\* done, then the guard is dropped, or the work panics and the thread
\* unwinds.
Release ==
    \E t \in Threads :
        /\ threads[t].frame # NoFrame
        /\ Steps(threads[t].frame.op)[threads[t].pc] = "drop"
        /\ LET th == threads[t]
               g == Top(th.held)
               r == Work(th.frame, g)
           IN  /\ data' = [data EXCEPT !.arena = r.arena]
               /\ IF r.ok
                  THEN /\ lock' = IF g = "read" THEN drop_read(lock, t)
                                  ELSE drop_write(lock, t)
                       /\ threads' = [threads EXCEPT ![t] =
                             IF Returns(th.frame, th.pc)
                             THEN [th EXCEPT !.frame = NoFrame, !.pc = 0,
                                             !.held = Pop(@)]
                             ELSE [th EXCEPT !.pc = @ + 1, !.held = Pop(@)]]
                  ELSE /\ lock' = Unwind(lock, t)
                       /\ threads' = [threads EXCEPT ![t] =
                             [th EXCEPT !.frame = NoFrame, !.pc = 0,
                                        !.held = <<>>,
                                        !.status = "panicked"]]
        /\ UNCHANGED <<builder, saved, hist, phase, root, last, ref, refOut,
                       stage>>

NextLock ==
    \/ CallOp
    \/ Acquire
    \/ Release

SpecLock == InitLock /\ [][NextLock]_vars

\* The guards the call in progress on thread t holds.
ReadFrames(t) ==
    Cardinality({i \in 1 .. Len(threads[t].held) :
                    threads[t].held[i] = "read"})

Writing(t) ==
    \E i \in 1 .. Len(threads[t].held) : threads[t].held[i] = "write"

\* C17: under RefCell and under RwLock alike, a mutation's exclusive guard
\* is never held together with any other guard, shared or exclusive, and
\* the guards out are exactly those of the calls in progress: a call that
\* has returned or panicked holds none.
C17_WriteExcludes ==
    /\ Cardinality(lock.writers) <= 1
    /\ lock.writers # {} => Readers(lock) = {}
    /\ \A t \in Threads :
          /\ lock.readers[t] = ReadFrames(t)
          /\ t \in lock.writers <=> Writing(t)
          /\ threads[t].frame = NoFrame => threads[t].held = <<>>

\* Two threads hold shared guards at the same time.
SharedByTwo ==
    \E t, u \in Threads :
        t # u /\ lock.readers[t] > 0 /\ lock.readers[u] > 0

\* A mutation holds the exclusive guard of an RwLock while another thread,
\* which has already made a call on the tree, is free to make the next.
C17_Witness ==
    \E t, u \in Threads :
        /\ t # u
        /\ lock.guard = "RwLock"
        /\ lock.writers = {t}
        /\ Writing(t)
        /\ threads[u].status = "running"
        /\ threads[u].calls > 0
        /\ threads[u].frame = NoFrame


\* start_internal_at has just been called and nothing was built between
\* checkpoint and it: the branch the explicit build opened at the
\* checkpoint is its newest node.
EmptySuffix ==
    /\ stage.name = "wrapped"
    /\ ref.parent = VecLen(ref.arena) - 1

\* C21: start_internal_at(cp, K) with nothing built since cp = checkpoint()
\* leaves the builder in the state start_internal(K) leaves it in: same
\* arena and ranges, the new branch the current parent, no current child.
C21_EmptyWrapIsStart ==
    EmptySuffix => builder = ref


\* The siblings built since the checkpoint, by their identifiers in the
\* checkpoint build: in the explicit build they are the children of the
\* branch opened at the checkpoint, numbered one higher.
RECURSIVE Shifted(_)
Shifted(seq) ==
    IF seq = <<>> THEN <<>> ELSE <<Head(seq) - 1>> \o Shifted(Tail(seq))

Suffix == Shifted(children(ref.arena, ref.parent).items)

\* start_internal_at has just been called inside an open branch with a
\* non-empty suffix.
WrappedInside ==
    /\ stage.name = "wrapped"
    /\ ~EmptySuffix
    /\ ref.arena[ref.parent].parent # None

\* C22: inside an open branch P, start_internal_at with a non-empty suffix
\* creates a branch B under P whose children are the suffix nodes in
\* order, all with parent B, unlinked from what preceded them; B stands
\* where the suffix stood (first child of P, or right after the
\* checkpoint's prior sibling, linked both ways); B is the current parent
\* and the last suffix node the current child.
C22_WrapSuffix ==
    WrappedInside =>
        LET a == builder.arena
            B == VecLen(a) - 1
            P == ref.arena[ref.parent].parent
            kids == children(a, B)
        IN  /\ kind(a, B) = stage.k
            /\ parent(a, B) = P
            /\ kids.ok
            /\ kids.items = Suffix
            /\ \A i \in 1 .. Len(Suffix) :
                  /\ parent(a, Suffix[i]) = B
                  /\ prev_sibling(a, Suffix[i]) =
                        (IF i = 1 THEN None ELSE Suffix[i - 1])
                  /\ next_sibling(a, Suffix[i]) =
                        (IF i = Len(Suffix) THEN None ELSE Suffix[i + 1])
            /\ next_sibling(a, B) = None
            /\ prev_sibling(a, B) = saved.child
            /\ IF saved.child = None
               THEN first_child(a, P) = B
               ELSE /\ next_sibling(a, saved.child) = B
                    /\ parent(a, saved.child) = P
            /\ builder.parent = B
            /\ builder.child = Suffix[Len(Suffix)]

\* A wrap of two siblings that follow a prior sibling inside a branch.
C22_Witness ==
    /\ WrappedInside
    /\ saved.child # None
    /\ Len(Suffix) >= 2
    /\ builder.parent = VecLen(builder.arena) - 1


\* Every navigation call gives the same result on node n of d1 and of d2.
SameNavigation(d1, d2, n) ==
    /\ kind(d1.arena, n) = kind(d2.arena, n)
    /\ parent(d1.arena, n) = parent(d2.arena, n)
    /\ prev_sibling(d1.arena, n) = prev_sibling(d2.arena, n)
    /\ next_sibling(d1.arena, n) = next_sibling(d2.arena, n)
    /\ first_child(d1.arena, n) = first_child(d2.arena, n)
    /\ leaf_text_cow(d1.arena, n) = leaf_text_cow(d2.arena, n)

\* The walks from the roots of the two trees yield the same events, and
\* Display, which folds the leaf texts over them (node.rs:340-351), the
\* same text.
SameWalk(t1, t2) ==
    LET w1 == WalkEvents(t1.data.arena, t1.node)
        w2 == WalkEvents(t2.data.arena, t2.node)
    IN  /\ w1 = w2
        /\ DisplayFold(t1.data.arena, w1.events) =
              DisplayFold(t2.data.arena, w2.events)

\* C23: for the calls made so far, finish and finish_mut return trees with
\* the same root and, node by node, the same kind, links and leaf text,
\* hence the same walk and the same Display; the immutable tree keeps the
\* builder's ranges and the mutable tree has none.
C23_FinishEquivalence ==
    phase \in {"immutable", "mutable"} =>
        LET o == finish(builder)
            m == finish_mut(builder)
        IN  /\ phase = "immutable" => (data = o.data /\ root = o.node)
            /\ phase = "mutable" => (data = m.data /\ root = m.node)
            /\ o.node = m.node
            /\ DOMAIN o.data.arena = DOMAIN m.data.arena
            /\ \A n \in DOMAIN o.data.arena :
                  SameNavigation(o.data, m.data, n)
            /\ SameWalk(o, m)
            /\ o.data.ranges = builder.ranges
            /\ VecLen(o.data.ranges) = VecLen(o.data.arena)
            /\ m.data.ranges = <<>>

\* A mutable tree whose root is a wrapping branch created after its
\* children, with a leaf below it.
C23_Witness ==
    /\ phase = "mutable"
    /\ root # 0
    /\ first_child(data.arena, root) # None
    /\ \E n \in DOMAIN data.arena : leaf_text_cow(data.arena, n).has
    /\ Display(data.arena, root).ok


\* The next step of thread t takes a guard.
AboutToTake(t) ==
    /\ threads[t].frame # NoFrame
    /\ threads[t].pc <= Len(Steps(threads[t].frame.op))
    /\ Steps(threads[t].frame.op)[threads[t].pc] \in {"read", "write"}

HoldsNone(t) ==
    /\ threads[t].held = <<>>
    /\ lock.readers[t] = 0
    /\ t \notin lock.writers

\* C24: no public operation takes the guard while its caller holds it,
\* and none holds it after it has returned; so no call ever ends in the
\* conflicting-access panic, under RefCell for the one thread and under
\* RwLock for each thread (which never waits for a guard of its own).
C24_NoSelfConflict ==
    \A t \in Threads :
        /\ threads[t].status # "conflict"
        /\ AboutToTake(t) => HoldsNone(t)
        /\ threads[t].frame = NoFrame => HoldsNone(t)
        /\ Len(threads[t].held) <= 1

\* Under RefCell, after a mutation that returned, the thread is between
\* the two readings of a NodeWalker::next.
C24_Witness ==
    /\ lock.guard = "RefCell"
    /\ threads["t1"].calls = 2
    /\ threads["t1"].frame.op = "walker_next"
    /\ threads["t1"].pc = 3
    /\ AboutToTake("t1")
    /\ \E n \in DOMAIN data.arena :
          \/ data.arena[n] = Tombstone
          \/ data.arena[n].kind \in InsertKinds

====
